---- MODULE Spec2Model ----
(***************************************************************************)
(* Model of update_strongs_in_verses.py: main() loads two JSON documents,  *)
(* update_strong_definitions() joins them on the token field `strongs`,    *)
(* the verse document is written back and a summary is printed.            *)
(*                                                                         *)
(* JSON objects are functions whose DOMAIN is the set of keys present, so  *)
(* an absent field and a field holding "" or null are different values.    *)
(* JSON strings are strings; JSON null (Python None) is the value None.    *)
(***************************************************************************)
EXTENDS Integers, Sequences, FiniteSets, TLC

VARIABLES pc, disk, strongs_definitions, verses, before, calls,
          visited_verses, cur, visited_tokens,
          updated_count, not_found_count, missing_strongs, stdout, error

vars == <<pc, disk, strongs_definitions, verses, before, calls,
          visited_verses, cur, visited_tokens,
          updated_count, not_found_count, missing_strongs, stdout, error>>

(***************************************************************************)
(* Bounds of the model.                                                    *)
(***************************************************************************)
\* Largest number of tokens in a verse document, all verses together.
MaxTokens == 2
\* Strong's numbers of the report inputs are G1 .. G<MaxKeyNum>.
MaxKeyNum == 23

(***************************************************************************)
(* Values.                                                                 *)
(***************************************************************************)
\* Python None (JSON null); no input string has this value.
None == "<None>"
\* A name that is bound to nothing yet.
Unbound == <<>>
\* The dict with no keys.
EmptyDict == <<>>
\* No verse is being iterated.
NoRef == "<no verse>"

\* Strong's number n as the string the files hold.
Key(n) == "G" \o ToString(n)

\* dict.get(key, default)
Get(d, k, default) == IF k \in DOMAIN d THEN d[k] ELSE default

\* d[key] = value on a dict: the key is added when it is not there.
SetItem(d, k, v) == [f \in DOMAIN d \cup {k} |-> IF f = k THEN v ELSE d[f]]

\* Python truthiness of a value that is None or a string.
Truthy(v) == v # None /\ v # ""

(***************************************************************************)
(* Inputs: the two documents on disk.                                      *)
(***************************************************************************)
VerseRefs == {"Gen 1:1", "John 3:16"}
\* Order of the keys in verses.json, which is the iteration order of the dict.
VerseOrder == <<"Gen 1:1", "John 3:16">>

\* Marks a field the input leaves out.
Absent == "<absent>"

StrongsInputs == {Absent, None, "", Key(2), Key(10)}
StrongDefInputs == {Absent, "love"}
DefinitionKeys == {"", Key(2)}
DefinitionValues == {"", "love"}

MkToken(s, d) ==
    [f \in {"word"} \cup (IF s = Absent THEN {} ELSE {"strongs"})
                    \cup (IF d = Absent THEN {} ELSE {"strong_def"}) |->
        CASE f = "word" -> "agape"
          [] f = "strongs" -> s
          [] f = "strong_def" -> d]

TokenInputs == {MkToken(s, d) : s \in StrongsInputs, d \in StrongDefInputs}

RECURSIVE TokenSeqs(_)
\* All token sequences of length n.
TokenSeqs(n) ==
    IF n = 0 THEN {<<>>}
    ELSE {Append(s, t) : s \in TokenSeqs(n - 1), t \in TokenInputs}

\* A verse record with a tokens field.
MkVerse(tokens) == [f \in {"text", "tokens"} |-> IF f = "text" THEN "In the beginning" ELSE tokens]
\* A verse record without one.
BareVerse == [f \in {"text"} |-> "In the beginning"]

\* Verse records with exactly n tokens (with no tokens field there are none).
VersesWith(n) ==
    {MkVerse(s) : s \in TokenSeqs(n)} \cup (IF n = 0 THEN {BareVerse} ELSE {})

\* The verse documents: at most MaxTokens tokens in all.
VerseDocuments ==
    UNION {UNION {{("Gen 1:1" :> a) @@ ("John 3:16" :> b) :
                        a \in VersesWith(n), b \in VersesWith(m)} :
                  m \in 0..(MaxTokens - n)} :
           n \in 0..MaxTokens}

\* The definition documents: any keys among DefinitionKeys, any values.
DefinitionDocuments ==
    UNION {[K -> DefinitionValues] : K \in SUBSET DefinitionKeys}

(***************************************************************************)
(* Standard output: one record for each print call.                        *)
(***************************************************************************)
Line(kind) == [kind |-> kind]
LineN(kind, n) == [kind |-> kind, n |-> n]
LineKey(key) == [kind |-> "missing_key", key |-> key]

(***************************************************************************)
(* The state before main() runs.                                           *)
(***************************************************************************)
Init ==
    /\ pc = "load_definitions"
    /\ \E defs \in DefinitionDocuments, doc \in VerseDocuments :
         disk = [strongs |-> defs, verses |-> doc,
                 opened_for_write |-> FALSE, complete |-> TRUE]
    /\ strongs_definitions = Unbound
    /\ verses = Unbound
    /\ before = Unbound
    /\ calls = 0
    /\ visited_verses = {}
    /\ cur = NoRef
    /\ visited_tokens = {}
    /\ updated_count = 0
    /\ not_found_count = 0
    /\ missing_strongs = {}
    /\ stdout = <<>>
    /\ error = None

merge_vars == <<before, calls, visited_verses, cur, visited_tokens,
                updated_count, not_found_count, missing_strongs>>

(***************************************************************************)
(* main(), lines 68-70: load_json_file(strongs_file).  open() or json.load *)
(* may raise; nothing catches it.                                          *)
(***************************************************************************)
LoadDefinitions ==
    /\ pc = "load_definitions"
    /\ \E outcome \in {"ok", "missing", "malformed"} :
         IF outcome = "ok"
         THEN /\ strongs_definitions' = disk.strongs
              /\ stdout' = stdout \o <<Line("loading_definitions"),
                                       LineN("definitions_loaded", Cardinality(DOMAIN disk.strongs))>>
              /\ pc' = "load_verses"
              /\ error' = error
         ELSE /\ stdout' = Append(stdout, Line("loading_definitions"))
              /\ pc' = "aborted"
              /\ error' = "load_definitions"
              /\ UNCHANGED strongs_definitions
    /\ UNCHANGED <<disk, verses>>
    /\ UNCHANGED merge_vars

(***************************************************************************)
(* main(), lines 72-74: load_json_file(verses_file).                       *)
(***************************************************************************)
LoadVerses ==
    /\ pc = "load_verses"
    /\ \E outcome \in {"ok", "missing", "malformed"} :
         IF outcome = "ok"
         THEN /\ verses' = disk.verses
              /\ stdout' = stdout \o <<Line("loading_verses"),
                                       LineN("verses_loaded", Cardinality(DOMAIN disk.verses))>>
              /\ pc' = "update"
              /\ error' = error
         ELSE /\ stdout' = Append(stdout, Line("loading_verses"))
              /\ pc' = "aborted"
              /\ error' = "load_verses"
              /\ UNCHANGED verses
    /\ UNCHANGED <<disk, strongs_definitions>>
    /\ UNCHANGED merge_vars

(***************************************************************************)
(* Faulty variants of the loop body, each one slip away from TokenStep.    *)
(***************************************************************************)
\* `if not old_def:` in place of `if old_def != new_def:`.
TokenStep_fill_only(m, ref, i) ==
    LET token == m.verses[ref]["tokens"][i]
        strongs_num == Get(token, "strongs", None)
    IN  IF ~Truthy(strongs_num)
        THEN m
        ELSE IF strongs_num \in DOMAIN m.strongs_definitions
        THEN LET new_def == m.strongs_definitions[strongs_num]
                 old_def == Get(token, "strong_def", "")
             IN  IF ~Truthy(old_def)
                 THEN [m EXCEPT !.verses[ref]["tokens"][i] = SetItem(token, "strong_def", new_def),
                                !.updated_count = @ + 1]
                 ELSE m
        ELSE [m EXCEPT !.not_found_count = @ + 1,
                       !.missing_strongs = @ \cup {strongs_num}]

\* `if strongs_num is None:` in place of `if not strongs_num:`.
TokenStep_none_only(m, ref, i) ==
    LET token == m.verses[ref]["tokens"][i]
        strongs_num == Get(token, "strongs", None)
    IN  IF strongs_num = None
        THEN m
        ELSE IF strongs_num \in DOMAIN m.strongs_definitions
        THEN LET new_def == m.strongs_definitions[strongs_num]
                 old_def == Get(token, "strong_def", "")
             IN  IF old_def # new_def
                 THEN [m EXCEPT !.verses[ref]["tokens"][i] = SetItem(token, "strong_def", new_def),
                                !.updated_count = @ + 1]
                 ELSE m
        ELSE [m EXCEPT !.not_found_count = @ + 1,
                       !.missing_strongs = @ \cup {strongs_num}]

\* The else branch also sets token['strong_def'] = ''.
TokenStep_blank_on_miss(m, ref, i) ==
    LET token == m.verses[ref]["tokens"][i]
        strongs_num == Get(token, "strongs", None)
    IN  IF ~Truthy(strongs_num)
        THEN m
        ELSE IF strongs_num \in DOMAIN m.strongs_definitions
        THEN LET new_def == m.strongs_definitions[strongs_num]
                 old_def == Get(token, "strong_def", "")
             IN  IF old_def # new_def
                 THEN [m EXCEPT !.verses[ref]["tokens"][i] = SetItem(token, "strong_def", new_def),
                                !.updated_count = @ + 1]
                 ELSE m
        ELSE [m EXCEPT !.verses[ref]["tokens"][i] = SetItem(token, "strong_def", ""),
                       !.not_found_count = @ + 1,
                       !.missing_strongs = @ \cup {strongs_num}]

\* The comparison of old_def and new_def left out.
TokenStep_always_write(m, ref, i) ==
    LET token == m.verses[ref]["tokens"][i]
        strongs_num == Get(token, "strongs", None)
    IN  IF ~Truthy(strongs_num)
        THEN m
        ELSE IF strongs_num \in DOMAIN m.strongs_definitions
        THEN LET new_def == m.strongs_definitions[strongs_num]
             IN  [m EXCEPT !.verses[ref]["tokens"][i] = SetItem(token, "strong_def", new_def),
                           !.updated_count = @ + 1]
        ELSE [m EXCEPT !.not_found_count = @ + 1,
                       !.missing_strongs = @ \cup {strongs_num}]

\* The token replaced by {'strongs': ..., 'strong_def': ...}.
TokenStep_rebuild_token(m, ref, i) ==
    LET token == m.verses[ref]["tokens"][i]
        strongs_num == Get(token, "strongs", None)
    IN  IF ~Truthy(strongs_num)
        THEN m
        ELSE IF strongs_num \in DOMAIN m.strongs_definitions
        THEN LET new_def == m.strongs_definitions[strongs_num]
                 old_def == Get(token, "strong_def", "")
             IN  IF old_def # new_def
                 THEN [m EXCEPT !.verses[ref]["tokens"][i] =
                                    [strongs |-> strongs_num, strong_def |-> new_def],
                                !.updated_count = @ + 1]
                 ELSE m
        ELSE [m EXCEPT !.not_found_count = @ + 1,
                       !.missing_strongs = @ \cup {strongs_num}]

\* new_def = strongs_definitions.pop(strongs_num)
TokenStep_pop(m, ref, i) ==
    LET token == m.verses[ref]["tokens"][i]
        strongs_num == Get(token, "strongs", None)
    IN  IF ~Truthy(strongs_num)
        THEN m
        ELSE IF strongs_num \in DOMAIN m.strongs_definitions
        THEN LET new_def == m.strongs_definitions[strongs_num]
                 old_def == Get(token, "strong_def", "")
                 popped == [k \in DOMAIN m.strongs_definitions \ {strongs_num} |->
                               m.strongs_definitions[k]]
             IN  IF old_def # new_def
                 THEN [m EXCEPT !.verses[ref]["tokens"][i] = SetItem(token, "strong_def", new_def),
                                !.updated_count = @ + 1,
                                !.strongs_definitions = popped]
                 ELSE [m EXCEPT !.strongs_definitions = popped]
        ELSE [m EXCEPT !.not_found_count = @ + 1,
                       !.missing_strongs = @ \cup {strongs_num}]

\* not_found_count counts a missing key once: += 1 only when the key is new.
TokenStep_count_unique(m, ref, i) ==
    LET token == m.verses[ref]["tokens"][i]
        strongs_num == Get(token, "strongs", None)
    IN  IF ~Truthy(strongs_num)
        THEN m
        ELSE IF strongs_num \in DOMAIN m.strongs_definitions
        THEN LET new_def == m.strongs_definitions[strongs_num]
                 old_def == Get(token, "strong_def", "")
             IN  IF old_def # new_def
                 THEN [m EXCEPT !.verses[ref]["tokens"][i] = SetItem(token, "strong_def", new_def),
                                !.updated_count = @ + 1]
                 ELSE m
        ELSE [m EXCEPT !.not_found_count = IF strongs_num \in m.missing_strongs THEN @ ELSE @ + 1,
                       !.missing_strongs = @ \cup {strongs_num}]

\* The else branch also does strongs_definitions.setdefault(strongs_num, '').
TokenStep_setdefault(m, ref, i) ==
    LET token == m.verses[ref]["tokens"][i]
        strongs_num == Get(token, "strongs", None)
    IN  IF ~Truthy(strongs_num)
        THEN m
        ELSE IF strongs_num \in DOMAIN m.strongs_definitions
        THEN LET new_def == m.strongs_definitions[strongs_num]
                 old_def == Get(token, "strong_def", "")
             IN  IF old_def # new_def
                 THEN [m EXCEPT !.verses[ref]["tokens"][i] = SetItem(token, "strong_def", new_def),
                                !.updated_count = @ + 1]
                 ELSE m
        ELSE [m EXCEPT !.not_found_count = @ + 1,
                       !.missing_strongs = @ \cup {strongs_num},
                       !.strongs_definitions = SetItem(@, strongs_num, "")]

(***************************************************************************)
(* update_strong_definitions(), lines 43-56: the body of the inner loop    *)
(* for the token at position i of verse ref.  m holds what the function    *)
(* can reach: the two dicts, the two counters and the set.                 *)
(***************************************************************************)
TokenStep(m, ref, i) ==
    LET token == m.verses[ref]["tokens"][i]
        strongs_num == Get(token, "strongs", None)
    IN  IF ~Truthy(strongs_num)
        THEN m
        ELSE IF strongs_num \in DOMAIN m.strongs_definitions
        THEN LET new_def == m.strongs_definitions[strongs_num]
                 old_def == Get(token, "strong_def", "")
             IN  IF old_def # new_def
                 THEN [m EXCEPT !.verses[ref]["tokens"][i] = SetItem(token, "strong_def", new_def),
                                !.updated_count = @ + 1]
                 ELSE m
        ELSE [m EXCEPT !.not_found_count = @ + 1,
                       !.missing_strongs = @ \cup {strongs_num}]

\* What update_strong_definitions can reach, as one record.
MergeState ==
    [verses |-> verses, strongs_definitions |-> strongs_definitions,
     updated_count |-> updated_count, not_found_count |-> not_found_count,
     missing_strongs |-> missing_strongs]

\* Line 40: the verse record has a tokens field.
HasTokens(verse_data) == "tokens" \in DOMAIN verse_data

\* Positions of the tokens of a verse record.
TokenIndexes(verse_data) ==
    IF HasTokens(verse_data) THEN 1..Len(verse_data["tokens"]) ELSE {}

RECURSIVE FoldTokens(_, _, _, _)
\* Lines 43-56: the inner loop over the tokens i .. n of verse ref, in list order.
FoldTokens(m, ref, i, n) ==
    IF i > n THEN m ELSE FoldTokens(TokenStep(m, ref, i), ref, i + 1, n)

RECURSIVE FoldVerses(_, _)
\* Lines 39-56: the outer loop over the verses from the k-th key on, in dict order.
FoldVerses(m, k) ==
    IF k > Len(VerseOrder) THEN m
    ELSE LET ref == VerseOrder[k]
         IN  IF ref \notin DOMAIN m.verses
             THEN FoldVerses(m, k + 1)
             ELSE FoldVerses(FoldTokens(m, ref, 1, Cardinality(TokenIndexes(m.verses[ref]))),
                             k + 1)

\* update_strong_definitions(doc, defs) as a function of its arguments.
UpdateStrongDefinitions(doc, defs) ==
    FoldVerses([verses |-> doc, strongs_definitions |-> defs,
                updated_count |-> 0, not_found_count |-> 0, missing_strongs |-> {}], 1)

\* Tokens of the current verse the inner loop has not reached yet.
Remaining ==
    IF cur = NoRef THEN {} ELSE TokenIndexes(verses[cur]) \ visited_tokens

\* The verse the outer loop takes next: the first key, in the order of the
\* dict, that was not taken yet.
FirstUnvisited ==
    LET left == {k \in 1..Len(VerseOrder) :
                    VerseOrder[k] \in DOMAIN verses /\ VerseOrder[k] \notin visited_verses}
    IN  VerseOrder[CHOOSE k \in left : \A j \in left : k <= j]

\* The token the inner loop takes next: the lowest position not taken yet.
FirstRemaining == CHOOSE i \in Remaining : \A j \in Remaining : i <= j

(***************************************************************************)
(* main() line 76-77 and lines 35-37: the call, and the three locals.      *)
(***************************************************************************)
EnterUpdate ==
    /\ before' = verses
    /\ calls' = calls + 1
    /\ updated_count' = 0
    /\ not_found_count' = 0
    /\ missing_strongs' = {}
    /\ visited_verses' = {}
    /\ cur' = NoRef
    /\ visited_tokens' = {}
    /\ pc' = "loop"
    /\ UNCHANGED <<disk, strongs_definitions, verses, error>>

CallUpdate ==
    /\ pc = "update"
    /\ stdout' = Append(stdout, Line("updating"))
    /\ EnterUpdate

(***************************************************************************)
(* Lines 39-41: the outer loop moves to verse ref, once the inner loop of  *)
(* the verse before it is over.  A verse without tokens has no inner loop. *)
(***************************************************************************)
NextVerse(ref) ==
    /\ pc = "loop"
    /\ Remaining = {}
    /\ ref \in DOMAIN verses
    /\ ref \notin visited_verses
    /\ visited_verses' = visited_verses \cup {ref}
    /\ cur' = ref
    /\ visited_tokens' = {}
    /\ UNCHANGED <<pc, disk, strongs_definitions, verses, before, calls,
                   updated_count, not_found_count, missing_strongs, stdout, error>>

(***************************************************************************)
(* Lines 43-56: one pass of the inner loop, for token i of the verse.      *)
(***************************************************************************)
VisitToken(i) ==
    /\ pc = "loop"
    /\ i \in Remaining
    /\ LET m == TokenStep(MergeState, cur, i)
       IN  /\ verses' = m.verses
           /\ strongs_definitions' = m.strongs_definitions
           /\ updated_count' = m.updated_count
           /\ not_found_count' = m.not_found_count
           /\ missing_strongs' = m.missing_strongs
    /\ visited_tokens' = visited_tokens \cup {i}
    /\ UNCHANGED <<pc, disk, before, calls, visited_verses, cur, stdout, error>>

(***************************************************************************)
(* Line 58: both loops are over; the tuple goes back to main().            *)
(***************************************************************************)
Return ==
    /\ pc = "loop"
    /\ Remaining = {}
    /\ visited_verses = DOMAIN verses
    /\ pc' = "save"
    /\ UNCHANGED <<disk, strongs_definitions, verses, stdout, error>>
    /\ UNCHANGED merge_vars

\* The save wrapped in try/except: a failure is passed over.
SaveVerses_swallow ==
    /\ pc = "save"
    /\ stdout' = Append(stdout, Line("saving"))
    /\ \E outcome \in {"ok", "open_fails", "write_fails"} :
         CASE outcome = "ok" ->
                /\ disk' = [disk EXCEPT !.verses = verses,
                                        !.opened_for_write = TRUE,
                                        !.complete = TRUE]
                /\ error' = error
           [] outcome = "open_fails" ->
                disk' = disk /\ error' = "save"
           [] outcome = "write_fails" ->
                /\ disk' = [disk EXCEPT !.opened_for_write = TRUE,
                                        !.complete = FALSE]
                /\ error' = "save"
    /\ pc' = "summary"
    /\ UNCHANGED <<strongs_definitions, verses>>
    /\ UNCHANGED merge_vars

(***************************************************************************)
(* main() lines 81-82: save_json_file(verses_file, updated_verses).        *)
(* open(.., 'w') may raise before the file is touched; json.dump may raise *)
(* after it was truncated.                                                 *)
(***************************************************************************)
SaveVerses ==
    /\ pc = "save"
    /\ stdout' = Append(stdout, Line("saving"))
    /\ \E outcome \in {"ok", "open_fails", "write_fails"} :
         CASE outcome = "ok" ->
                /\ disk' = [disk EXCEPT !.verses = verses,
                                        !.opened_for_write = TRUE,
                                        !.complete = TRUE]
                /\ pc' = "summary"
                /\ error' = error
           [] outcome = "open_fails" ->
                /\ disk' = disk
                /\ pc' = "aborted"
                /\ error' = "save"
           [] outcome = "write_fails" ->
                /\ disk' = [disk EXCEPT !.opened_for_write = TRUE,
                                        !.complete = FALSE]
                /\ pc' = "aborted"
                /\ error' = "save"
    /\ UNCHANGED <<strongs_definitions, verses>>
    /\ UNCHANGED merge_vars

(***************************************************************************)
(* sorted() of a set of strings: ascending by code points.                 *)
(***************************************************************************)
RECURSIVE Digits(_)
\* Code points of the decimal digits of n.
Digits(n) == IF n < 10 THEN <<48 + n>> ELSE Append(Digits(n \div 10), 48 + (n % 10))

\* Code points of a string of the model: "" or a Strong's number.
CodePoints(s) ==
    IF s = "" THEN <<>>
    ELSE <<71>> \o Digits(CHOOSE n \in 0..MaxKeyNum : Key(n) = s)

RECURSIVE SeqLess(_, _)
\* a < b for two strings, as Python compares them.
SeqLess(a, b) ==
    IF a = <<>> THEN b # <<>>
    ELSE IF b = <<>> THEN FALSE
    ELSE \/ Head(a) < Head(b)
         \/ Head(a) = Head(b) /\ SeqLess(Tail(a), Tail(b))

RECURSIVE SortPairs(_)
\* The strings of a set of pairs <<code points, string>>, least first.
SortPairs(P) ==
    IF P = {} THEN <<>>
    ELSE LET least == CHOOSE p \in P : \A q \in P \ {p} : SeqLess(p[1], q[1])
         IN  <<least[2]>> \o SortPairs(P \ {least})

\* sorted(S)
Sorted(S) == SortPairs({<<CodePoints(x), x>> : x \in S})

\* Lines 91, 93, 94: the number of missing keys the report prints.
ReportLimit == 20

\* s[:n]
Prefix(s, n) == SubSeq(s, 1, IF Len(s) < n THEN Len(s) ELSE n)

\* `>=` in place of `>` at line 93.
MissingLines_ge(missing) ==
    IF missing = {}
    THEN <<>>
    ELSE LET shown == Prefix(Sorted(missing), ReportLimit)
         IN  <<LineN("missing_header", Cardinality(missing))>>
             \o [k \in 1..Len(shown) |-> LineKey(shown[k])]
             \o (IF Cardinality(missing) >= ReportLimit
                 THEN <<LineN("more", Cardinality(missing) - ReportLimit)>>
                 ELSE <<>>)

(***************************************************************************)
(* main() lines 89-94: the section of the missing keys.                    *)
(***************************************************************************)
MissingLines(missing) ==
    IF missing = {}
    THEN <<>>
    ELSE LET shown == Prefix(Sorted(missing), ReportLimit)
         IN  <<LineN("missing_header", Cardinality(missing))>>
             \o [k \in 1..Len(shown) |-> LineKey(shown[k])]
             \o (IF Cardinality(missing) > ReportLimit
                 THEN <<LineN("more", Cardinality(missing) - ReportLimit)>>
                 ELSE <<>>)

(***************************************************************************)
(* main() lines 84-96: the summary.                                        *)
(***************************************************************************)
PrintSummary ==
    /\ pc = "summary"
    /\ stdout' = stdout
                 \o <<Line("rule"), Line("summary"),
                      LineN("updated", updated_count),
                      LineN("not_found", not_found_count)>>
                 \o MissingLines(missing_strongs)
                 \o <<Line("done")>>
    /\ pc' = "done"
    /\ UNCHANGED <<disk, strongs_definitions, verses, error>>
    /\ UNCHANGED merge_vars

(***************************************************************************)
(* The program: main(), with the loops of update_strong_definitions taken  *)
(* in the order of the dict and of the token lists.                        *)
(***************************************************************************)
IterateInOrder ==
    \/ \E ref \in DOMAIN verses \ visited_verses : ref = FirstUnvisited /\ NextVerse(ref)
    \/ \E i \in Remaining : i = FirstRemaining /\ VisitToken(i)

Next ==
    \/ LoadDefinitions
    \/ LoadVerses
    \/ CallUpdate
    \/ IterateInOrder
    \/ Return
    \/ SaveVerses
    \/ PrintSummary

Spec == Init /\ [][Next]_vars

(***************************************************************************)
(* update_strong_definitions() on its own: the state main() is in when it  *)
(* makes the call at line 77, for any two documents.                       *)
(***************************************************************************)
InitCall ==
    /\ pc = "update"
    /\ \E defs \in DefinitionDocuments, doc \in VerseDocuments :
         /\ disk = [strongs |-> defs, verses |-> doc,
                    opened_for_write |-> FALSE, complete |-> TRUE]
         /\ strongs_definitions = defs
         /\ verses = doc
         /\ stdout = <<Line("loading_definitions"),
                       LineN("definitions_loaded", Cardinality(DOMAIN defs)),
                       Line("loading_verses"),
                       LineN("verses_loaded", Cardinality(DOMAIN doc))>>
    /\ before = Unbound
    /\ calls = 0
    /\ visited_verses = {}
    /\ cur = NoRef
    /\ visited_tokens = {}
    /\ updated_count = 0
    /\ not_found_count = 0
    /\ missing_strongs = {}
    /\ error = None

\* The loops taken in any order of the verses and of the tokens of a verse.
IterateAnyOrder ==
    \/ \E ref \in VerseRefs : NextVerse(ref)
    \/ \E i \in Remaining : VisitToken(i)

NextAnyOrder ==
    \/ CallUpdate
    \/ IterateAnyOrder
    \/ Return

SpecAnyOrder == InitCall /\ [][NextAnyOrder]_vars

\* update_strong_definitions(updated_verses, strongs_definitions) called once
\* more, on what the first call returned.
CallUpdateAgain ==
    /\ pc = "save"
    /\ calls = 1
    /\ stdout' = stdout
    /\ EnterUpdate

NextRerun ==
    \/ CallUpdate
    \/ IterateInOrder
    \/ Return
    \/ CallUpdateAgain

SpecRerun == InitCall /\ [][NextRerun]_vars

(***************************************************************************)
(* The summary on its own: the state main() is in at line 84 when the      *)
(* definitions are {} and the tokens of the first verse hold the Strong's  *)
(* numbers of `missing`, one token each, sorted.                           *)
(***************************************************************************)
KeysBetween(lo, hi) == {Key(n) : n \in lo..hi}

\* Runs of Strong's numbers G<lo> .. G<hi>, with one of them left out or none.
ReportMissingSets ==
    {KeysBetween(lo, hi) \ {Key(hole)} :
        lo \in 1..MaxKeyNum, hi \in 0..MaxKeyNum, hole \in 0..MaxKeyNum}

InitReport ==
    /\ pc = "summary"
    /\ \E missing \in ReportMissingSets :
         \E keys \in {Sorted(missing)} :
         \E doc \in {("Gen 1:1" :> MkVerse([k \in 1..Len(keys) |-> MkToken(keys[k], Absent)]))
                     @@ ("John 3:16" :> BareVerse)} :
             /\ disk = [strongs |-> EmptyDict, verses |-> doc,
                        opened_for_write |-> TRUE, complete |-> TRUE]
             /\ verses = doc
             /\ before = doc
             /\ not_found_count = Cardinality(missing)
             /\ missing_strongs = missing
             /\ visited_tokens = {}
             /\ stdout = <<Line("loading_definitions"),
                           LineN("definitions_loaded", 0),
                           Line("loading_verses"),
                           LineN("verses_loaded", Cardinality(DOMAIN doc)),
                           Line("updating"), Line("saving")>>
    /\ strongs_definitions = EmptyDict
    /\ calls = 1
    /\ visited_verses = VerseRefs
    /\ cur = "John 3:16"
    /\ updated_count = 0
    /\ error = None

SpecReport == InitReport /\ [][PrintSummary]_vars

(***************************************************************************)
(* Properties.                                                             *)
(***************************************************************************)
\* The places <<verse reference, position>> of the tokens of a document.
Positions(doc) ==
    UNION {{<<ref, i>> : i \in TokenIndexes(doc[ref])} : ref \in DOMAIN doc}

TokenAt(doc, p) == doc[p[1]]["tokens"][p[2]]

\* token.get('strongs') at a place of a document.
StrongsAt(doc, p) == Get(TokenAt(doc, p), "strongs", None)

\* update_strong_definitions has returned to main().
Returned == pc \in {"save", "summary", "done"} \/ (pc = "aborted" /\ error = "save")

\* The token at p has a Strong's number the loop looks up, and it is defined.
Defined(doc, p) ==
    Truthy(StrongsAt(doc, p)) /\ StrongsAt(doc, p) \in DOMAIN strongs_definitions

\* The token at p has a Strong's number the loop looks up, and it is not defined.
Undefined(doc, p) ==
    Truthy(StrongsAt(doc, p)) /\ StrongsAt(doc, p) \notin DOMAIN strongs_definitions

\* C1 as stated: after update_strong_definitions returns, every token whose
\* strongs value is a key of the definitions map has a strong_def field equal
\* to definitions[strongs].
C1_AsStated ==
    Returned =>
        \A p \in Positions(verses) :
            LET token == TokenAt(verses, p)
            IN  ("strongs" \in DOMAIN token /\ token["strongs"] \in DOMAIN strongs_definitions)
                => /\ "strong_def" \in DOMAIN token
                   /\ token["strong_def"] = strongs_definitions[token["strongs"]]

\* C1 (amended): after update_strong_definitions returns, every token whose
\* strongs value is non-falsy and a key of the definitions map has a strong_def
\* which, read as "" when the field is absent, equals definitions[strongs].
C1_DefinitionApplied ==
    Returned =>
        \A p \in Positions(verses) :
            Defined(verses, p)
            => Get(TokenAt(verses, p), "strong_def", "")
                   = strongs_definitions[StrongsAt(verses, p)]

\* A returned call that overwrote a token's strong_def with a different definition.
C1_Witness ==
    /\ Returned
    /\ \E p \in Positions(verses) :
         /\ Defined(verses, p)
         /\ "strong_def" \in DOMAIN TokenAt(before, p)
         /\ TokenAt(before, p)["strong_def"] # strongs_definitions[StrongsAt(verses, p)]

\* The inner loop has just gone over token i, whose strongs value is falsy.
FalsyTokenVisited(i) ==
    /\ pc = "loop"
    /\ i \in Remaining
    /\ visited_tokens' = visited_tokens \cup {i}
    /\ ~Truthy(Get(verses[cur]["tokens"][i], "strongs", None))

\* C2: a token whose strongs value is absent, null or "" keeps its strong_def
\* as it was (absent stays absent) through the whole call, and the pass of the
\* loop over it changes neither counter nor the missing-key set.
C2_FalsySkipped ==
    /\ [](calls >= 1 =>
            \A p \in Positions(before) :
                ~Truthy(StrongsAt(before, p)) => TokenAt(verses, p) = TokenAt(before, p))
    /\ [][\A i \in 1..(MaxTokens + 1) :
            FalsyTokenVisited(i) =>
                /\ verses' = verses
                /\ updated_count' = updated_count
                /\ not_found_count' = not_found_count
                /\ missing_strongs' = missing_strongs]_vars

\* A returned call over a token whose strongs is "" while "" is a key of the
\* definitions map, with a definition the token does not hold.
C2_Witness ==
    /\ Returned
    /\ \E p \in Positions(verses) :
         /\ StrongsAt(before, p) = ""
         /\ "" \in DOMAIN strongs_definitions
         /\ "strong_def" \notin DOMAIN TokenAt(verses, p)
         /\ strongs_definitions[""] # ""

\* The lines of the report that list the key s.
ListedAt(s) == {k \in DOMAIN stdout : stdout[k] = LineKey(s)}

\* C3: a token whose non-falsy strongs value is not a key of the definitions
\* map is returned as it was, its strongs value is in the returned missing-key
\* set, and the report lists that value once however many tokens hold it.
C3_MissingLeftAndListedOnce ==
    Returned =>
        \A p \in Positions(before) :
            Undefined(before, p)
            => /\ TokenAt(verses, p) = TokenAt(before, p)
               /\ StrongsAt(before, p) \in missing_strongs
               /\ Cardinality({s \in missing_strongs : s = StrongsAt(before, p)}) = 1
               /\ pc = "done" => Cardinality(ListedAt(StrongsAt(before, p))) = 1

\* The report is out and two tokens, of two verses, hold the same undefined
\* Strong's number, one of them with a strong_def.
C3_Witness ==
    /\ pc = "done"
    /\ \E p, q \in Positions(before) :
         /\ p[1] # q[1]
         /\ Undefined(before, p)
         /\ StrongsAt(before, q) = StrongsAt(before, p)
         /\ "strong_def" \in DOMAIN TokenAt(before, p)

\* f differs from g at most in the field k.
SameButField(f, g, k) ==
    /\ DOMAIN f \ {k} = DOMAIN g \ {k}
    /\ \A x \in DOMAIN f \ {k} : f[x] = g[x]

\* C5: from the call on, the verse collection differs from what it was at the
\* call in nothing but the strong_def of tokens: same verse references, same
\* fields of every verse record, token sequences of the same length whose
\* tokens hold, place by place, the same other fields; a verse record with no
\* tokens field is as it was.
C5_OnlyStrongDefWritten ==
    calls >= 1 =>
        /\ DOMAIN verses = DOMAIN before
        /\ \A ref \in DOMAIN before :
             /\ SameButField(verses[ref], before[ref], "tokens")
             /\ HasTokens(verses[ref]) = HasTokens(before[ref])
             /\ ~HasTokens(before[ref]) => verses[ref] = before[ref]
             /\ HasTokens(before[ref]) =>
                  /\ Len(verses[ref]["tokens"]) = Len(before[ref]["tokens"])
                  /\ \A i \in TokenIndexes(before[ref]) :
                       SameButField(verses[ref]["tokens"][i], before[ref]["tokens"][i],
                                    "strong_def")

\* A returned call that wrote a strong_def while one verse has no tokens field.
C5_Witness ==
    /\ Returned
    /\ verses # before
    /\ \E ref \in DOMAIN before : ~HasTokens(before[ref])

\* C6: once loaded, the definitions map keeps the keys and values of the file
\* it was loaded from, in every state up to the end of the program.
C6_DefinitionsNeverMutated ==
    (pc # "load_definitions" /\ error # "load_definitions")
        => strongs_definitions = disk.strongs

\* The program ended after a merge that found a definition and missed another.
C6_Witness ==
    /\ pc = "done"
    /\ updated_count > 0
    /\ not_found_count > 0
    /\ strongs_definitions # EmptyDict

\* The tokens of `before` that the call has to overwrite.
ToUpdate ==
    {p \in Positions(before) :
        /\ Defined(before, p)
        /\ Get(TokenAt(before, p), "strong_def", "")
               # strongs_definitions[StrongsAt(before, p)]}

\* The tokens of `before` whose Strong's number is looked up and not found.
NotFound == {p \in Positions(before) : Undefined(before, p)}

\* C8: the returned updated_count is the number of tokens with a defined
\* Strong's number whose strong_def ("" when absent) differed from the
\* definition; the returned not_found_count is the number of tokens with an
\* undefined Strong's number, so it is at least the size of the missing-key
\* set, which holds the Strong's numbers of those tokens.
C8_CountersExact ==
    Returned =>
        /\ updated_count = Cardinality(ToUpdate)
        /\ not_found_count = Cardinality(NotFound)
        /\ missing_strongs = {StrongsAt(before, p) : p \in NotFound}
        /\ not_found_count >= Cardinality(missing_strongs)

\* A returned call with two tokens of one undefined Strong's number.
C8_Witness ==
    /\ Returned
    /\ not_found_count = 2
    /\ Cardinality(missing_strongs) = 1

\* C4: a second call of update_strong_definitions on what the first call
\* returned, with the same definitions map, never counts an update and never
\* changes a token: its updated_count is 0 and the verses stay as passed in.
C4_SecondRunIdle ==
    calls = 2 => (updated_count = 0 /\ verses = before)

\* The second call returned, after a first call that overwrote a strong_def.
C4_Witness ==
    /\ calls = 2
    /\ pc = "save"
    /\ verses # disk.verses

KindLines(kinds) == SelectSeq(stdout, LAMBDA l : l.kind \in kinds)

\* The lines that open the stages of main(), as printed so far.
StageLines ==
    KindLines({"loading_definitions", "loading_verses", "updating", "saving", "summary"})

StageOrder ==
    <<Line("loading_definitions"), Line("loading_verses"), Line("updating"),
      Line("saving"), Line("summary")>>

IsPrefix(a, b) == Len(a) <= Len(b) /\ a = SubSeq(b, 1, Len(a))

\* The moves of main() from one stage to the next, or out.
StageSteps ==
    {<<"load_definitions", "load_verses">>, <<"load_definitions", "aborted">>,
     <<"load_verses", "update">>, <<"load_verses", "aborted">>,
     <<"update", "loop">>, <<"loop", "loop">>, <<"loop", "save">>,
     <<"save", "summary">>, <<"save", "aborted">>,
     <<"summary", "done">>}

\* C7: the stages of main() start in the order load definitions, load verses,
\* merge, save, summary, each at most once, and a failed stage ends the run.
\* When a load failed no verse was loaded, the merge was never called and
\* verses.json was never opened for writing; when the save failed the merge
\* is complete in memory and no line of the summary is printed.
C7_StagesInOrder ==
    /\ [](/\ IsPrefix(StageLines, StageOrder)
          /\ error # None => pc = "aborted"
          /\ error \in {"load_definitions", "load_verses"} =>
                /\ verses = Unbound
                /\ calls = 0
                /\ ~disk.opened_for_write
                /\ disk.complete
                /\ Len(StageLines) <= 2
          /\ error = "save" =>
                /\ calls = 1
                /\ visited_verses = DOMAIN verses
                /\ Remaining = {}
                /\ verses = UpdateStrongDefinitions(before, strongs_definitions).verses
                /\ KindLines({"summary", "updated", "not_found", "missing_header",
                              "missing_key", "more", "done"}) = <<>>)
    /\ [][/\ <<pc, pc'>> \in StageSteps
          /\ disk' # disk => (pc = "save" /\ disk'.opened_for_write)]_vars

\* The save failed after verses.json was opened, with an update made in memory.
C7_Witness ==
    /\ pc = "aborted"
    /\ error = "save"
    /\ disk.opened_for_write
    /\ ~disk.complete
    /\ verses # before

\* C9: whatever the order in which the verses, and the tokens of a verse, are
\* gone over, the call returns the tokens, the updated_count, the
\* not_found_count and the missing-key set that the order of the file gives.
C9_OrderIndependent ==
    pc = "save" =>
        LET m == UpdateStrongDefinitions(before, disk.strongs)
        IN  /\ verses = m.verses
            /\ updated_count = m.updated_count
            /\ not_found_count = m.not_found_count
            /\ missing_strongs = m.missing_strongs

\* A call that went over the verses against the order of the file, both with
\* tokens, and overwrote a strong_def.
C9_Witness ==
    /\ pc = "save"
    /\ cur = VerseOrder[1]
    /\ \A ref \in DOMAIN before : TokenIndexes(before[ref]) # {}
    /\ verses # before
    /\ not_found_count > 0

\* C10: with n missing keys the report lists the min(n, 20) least of them, in
\* ascending order of the strings and each once; it says how many were left
\* out exactly when n > 20, and the number it gives is n - 20; with n = 0 no
\* line about missing keys is printed.
C10_MissingReport ==
    pc = "done" =>
        LET n == Cardinality(missing_strongs)
            key_lines == KindLines({"missing_key"})
            more_lines == KindLines({"more"})
            header_lines == KindLines({"missing_header"})
            listed == {key_lines[k].key : k \in DOMAIN key_lines}
        IN  /\ Len(key_lines) = IF n < 20 THEN n ELSE 20
            /\ \A k \in 1..(Len(key_lines) - 1) :
                 SeqLess(CodePoints(key_lines[k].key), CodePoints(key_lines[k + 1].key))
            /\ listed \subseteq missing_strongs
            /\ \A a \in listed : \A b \in missing_strongs \ listed :
                 SeqLess(CodePoints(a), CodePoints(b))
            /\ Len(more_lines) = IF n > 20 THEN 1 ELSE 0
            /\ \A k \in DOMAIN more_lines : more_lines[k].n = n - 20
            /\ Len(header_lines) = IF n = 0 THEN 0 ELSE 1
            /\ n = 0 => (key_lines = <<>> /\ more_lines = <<>>)

\* The report of 22 missing keys is out.
C10_Witness ==
    /\ pc = "done"
    /\ Cardinality(missing_strongs) = 22

====
